---- MODULE Spec2Model ----
(***************************************************************************)
(* Model of the control flow of icdcoder:                                  *)
(*   - Trainer.train        (src/Utilities.py)  : SpecTrain                *)
(*   - KFoldCrossVal.train  (src/Utilities.py)  : SpecKFold                *)
(*   - baseline_coder main  (src/baseline_coder.py) : SpecMain             *)
(* Tensors, losses and weights are abstracted: a model object is the       *)
(* number of optimizer steps applied to it plus the set of batches whose   *)
(* gradient is accumulated in it; a validation loss is a small natural.    *)
(* A Trainer may be trained again after a call has returned; self.model    *)
(* and self.optim persist between the calls.                               *)
(***************************************************************************)
EXTENDS Integers, Sequences, FiniteSets, TLC

\* ---------------------------------------------------------------- bounds
MaxEpochs == 3
MaxBatches == 4
MaxAccum == 3
MaxValBatches == 1
MaxLoss == 1
MaxPatience == 2
MaxSamples == 4
MaxFolds == 3
MaxBatchSize == 2

VARIABLES
  pc,          \* position of Trainer.train
  arg,         \* the arguments of the train call
  nBatches,    \* len(dataLoader)
  nValBatches, \* len(val_dataLoader), 0 when X_val is None
  epoch, b, vb,
  heap,        \* model objects: <<[w, grad]>>, index = reference
  self_model,  \* self.model (a reference into heap)
  optim,       \* self.optim: None, or the object whose parameters it holds
  model_best_loss, loss_epoch, old_loss, epoch_patience_count,
  num_training_steps, sched_steps,   \* the scheduler
  optim_steps,           \* log of optimizer steps: [kind, epoch, b, grads]
  batch_loss_history,    \* validation pass: sum of the batch losses so far
  val_epoch_loss_history,
  epoch_loss_history,    \* one entry per epoch whose training loop ended
  epoch_end_model,       \* weights of self.model at each validation end
  saved,                 \* file written by torch.save, or NoFile
  \* baseline_coder.py
  m_pc, argv, args, invoked,
  \* KFoldCrossVal.train
  k_pc, kf, splits, fold, x, x_val, x_test, test_log,
  dummy_predictions, dummy_labels, report

trainVars == <<pc, arg, nBatches, nValBatches, epoch, b, vb, heap, self_model, optim,
               model_best_loss, loss_epoch, old_loss, epoch_patience_count,
               num_training_steps, sched_steps, optim_steps,
               batch_loss_history, val_epoch_loss_history,
               epoch_loss_history, epoch_end_model, saved>>

mainVars == <<m_pc, argv, args, invoked>>

kfoldVars == <<k_pc, kf, splits, fold, x, x_val, x_test, test_log,
               dummy_predictions, dummy_labels, report>>

vars == <<trainVars, mainVars, kfoldVars>>

\* the variables of the programs a specification does not run
notTrain == <<mainVars, kfoldVars>>
notMain == <<trainVars, kfoldVars>>
notKFold == <<trainVars, mainVars>>

\* ------------------------------------------------------- Python values
None == 0                 \* a reference that names no object
Unbound == 0              \* loss_epoch before its first assignment
Inf == 1000000            \* np.inf: above every reachable loss sum
NoFile == [name |-> "none"]

Losses == 0 .. MaxLoss

\* a reference to the same object instead of a copy
AliasCopy(h, ref) == [h2 |-> h, ref |-> ref]

\* deepcopy(self.model): a new object with the same contents
DeepCopy(h, ref) == [h2 |-> Append(h, h[ref]), ref |-> Len(h) + 1]

\* batch_loss.backward(): the batch's gradient is added to .grad
Backward(h, ref, bid) == [h EXCEPT ![ref].grad = @ \cup {bid}]

\* self.model.zero_grad()
ZeroGrad(h, ref) == [h EXCEPT ![ref].grad = {}]

\* self.optim.step(): the optimizer updates the parameters it was built
\* with (those of object ref) by the gradient accumulated in them
OptimStep(h, ref) == [h EXCEPT ![ref].w = @ + 1]

\* lines 51-52: the optimizer is built from self.model only when there is none
GetOptim(opt, model) == IF opt = None THEN model ELSE opt

\* line 68: the condition for an in-loop optimizer step after batch bb
\* (evaluated only when gradient_accumulation - 1 # 0)
StepAfterBatch(bb, g) == bb % (g - 1) = 0 /\ bb # 0

\* line 53: steps handed to get_scheduler
SchedulerSteps(nb, g, ep) == (nb \div g) * ep

\* line 114: the comparison that selects a new best model
Improves(avg, old) == avg < old

\* a counter of consecutive (not cumulative) epochs without improvement
PatienceCountReset(count, improved) == IF improved THEN 0 ELSE count + 1

\* lines 113-118: the patience counter after one validation pass
PatienceCount(count, improved) == IF improved THEN (count + 1) - 1 ELSE count + 1

\* lines 129-131
EarlyStop(a, count) == a.early_stopping /\ a.patience = count

StepRec(kind, e, bb, grads) == [kind |-> kind, epoch |-> e, b |-> bb, grads |-> grads]

\* ------------------------------------------------------------ Trainer.train
TrainArgs ==
  [epochs : 0 .. MaxEpochs,
   gradient_accumulation : 1 .. MaxAccum,
   X_val : BOOLEAN,
   early_stopping : BOOLEAN,
   patience : 0 .. MaxPatience,
   return_best_model : BOOLEAN,
   save_model : BOOLEAN]

\* the defaults of the signature of train (lines 40-42), with no epochs
NoCall ==
  [epochs |-> 0, gradient_accumulation |-> 1, X_val |-> FALSE,
   early_stopping |-> TRUE, patience |-> 1, return_best_model |-> TRUE,
   save_model |-> TRUE]

\* lines 23-38: the Trainer after construction, train not yet called
TrainInit ==
  /\ pc = "idle"
  /\ arg = NoCall
  /\ nBatches = 0 /\ nValBatches = 0
  /\ epoch = 0 /\ b = 0 /\ vb = 0
  /\ heap = <<[w |-> 0, grad |-> {}]>>
  /\ self_model = 1
  /\ optim = None
  /\ model_best_loss = None
  /\ loss_epoch = Unbound
  /\ old_loss = Inf
  /\ epoch_patience_count = 0
  /\ num_training_steps = 0
  /\ sched_steps = 0
  /\ optim_steps = <<>>
  /\ batch_loss_history = 0
  /\ val_epoch_loss_history = <<>>
  /\ epoch_loss_history = <<>>
  /\ epoch_end_model = <<>>
  /\ saved = NoFile

\* lines 40-57: a call of train on a new or an already trained Trainer, up to
\* the first iteration of the epoch loop
TrainCall ==
  /\ pc = "idle"
  /\ self_model # None
  /\ \E a \in TrainArgs, nb \in 1 .. MaxBatches, nvb \in 0 .. MaxValBatches :
       /\ a.X_val <=> nvb > 0
       /\ arg' = a /\ nBatches' = nb /\ nValBatches' = nvb
       /\ pc' = IF a.epochs = 0 THEN "finish" ELSE "train"
       /\ num_training_steps' = SchedulerSteps(nb, a.gradient_accumulation, a.epochs)
  /\ optim' = GetOptim(optim, self_model)
  /\ UNCHANGED <<notTrain, epoch, b, vb, heap, self_model, model_best_loss,
                 loss_epoch, old_loss, epoch_patience_count, sched_steps,
                 optim_steps, batch_loss_history, val_epoch_loss_history,
                 epoch_loss_history, epoch_end_model, saved>>

\* lines 45, 59: a call on a Trainer whose self.model is None (left by a call
\* with a validation set, return_best_model and no epoch): the first use of
\* the model raises AttributeError
TrainCallRaise ==
  /\ pc = "idle"
  /\ self_model = None
  /\ pc' = "AttributeError"
  /\ UNCHANGED <<notTrain, optim, arg, nBatches, nValBatches, epoch, b, vb, heap,
                 self_model, model_best_loss, loss_epoch, old_loss,
                 epoch_patience_count, num_training_steps, sched_steps,
                 optim_steps, batch_loss_history, val_epoch_loss_history,
                 epoch_loss_history, epoch_end_model, saved>>

\* lines 62-72 with gradient_accumulation = 1: b % 0 raises ZeroDivisionError
BatchRaise ==
  /\ pc = "train" /\ b < nBatches
  /\ arg.gradient_accumulation - 1 = 0
  /\ heap' = Backward(heap, self_model, <<epoch, b>>)
  /\ pc' = "ZeroDivisionError"
  /\ UNCHANGED <<notTrain, optim, arg, nBatches, nValBatches, epoch, b, vb, self_model,
                 model_best_loss, loss_epoch, old_loss, epoch_patience_count,
                 num_training_steps, sched_steps, optim_steps,
                 batch_loss_history, val_epoch_loss_history,
                 epoch_loss_history, epoch_end_model, saved>>

\* lines 62-72: a batch after which the optimizer steps
BatchStep ==
  /\ pc = "train" /\ b < nBatches
  /\ arg.gradient_accumulation - 1 # 0
  /\ StepAfterBatch(b, arg.gradient_accumulation)
  /\ LET h1 == Backward(heap, self_model, <<epoch, b>>)
     IN /\ optim_steps' = Append(optim_steps, StepRec("loop", epoch, b, h1[optim].grad))
        /\ heap' = ZeroGrad(OptimStep(h1, optim), self_model)
  /\ sched_steps' = sched_steps + 1
  /\ b' = b + 1
  /\ UNCHANGED <<notTrain, optim, pc, arg, nBatches, nValBatches, epoch, vb, self_model,
                 model_best_loss, loss_epoch, old_loss, epoch_patience_count,
                 num_training_steps, batch_loss_history,
                 val_epoch_loss_history, epoch_loss_history, epoch_end_model,
                 saved>>

\* lines 62-72: a batch whose gradient is only accumulated
BatchAccumulate ==
  /\ pc = "train" /\ b < nBatches
  /\ arg.gradient_accumulation - 1 # 0
  /\ ~StepAfterBatch(b, arg.gradient_accumulation)
  /\ heap' = Backward(heap, self_model, <<epoch, b>>)
  /\ b' = b + 1
  /\ UNCHANGED <<notTrain, optim, pc, arg, nBatches, nValBatches, epoch, vb, self_model,
                 model_best_loss, loss_epoch, old_loss, epoch_patience_count,
                 num_training_steps, sched_steps, optim_steps,
                 batch_loss_history, val_epoch_loss_history,
                 epoch_loss_history, epoch_end_model, saved>>

\* where the epoch loop goes after the body of one epoch (line 57)
NextEpochPc(a, e) == IF e + 1 < a.epochs THEN "train" ELSE "finish"

\* lines 82-91 and 132-134: end of the batch loop of one epoch
EpochEnd ==
  /\ pc = "train" /\ b = nBatches
  /\ optim_steps' = Append(optim_steps, StepRec("end", epoch, b, heap[optim].grad))
  /\ heap' = ZeroGrad(OptimStep(heap, optim), self_model)
  /\ epoch_loss_history' = Append(epoch_loss_history, epoch + 1)
  /\ b' = 0
  /\ IF arg.X_val
       THEN /\ pc' = "val" /\ vb' = 0 /\ batch_loss_history' = 0
            /\ UNCHANGED epoch
       ELSE /\ pc' = NextEpochPc(arg, epoch)
            /\ epoch' = IF epoch + 1 < arg.epochs THEN epoch + 1 ELSE epoch
            /\ UNCHANGED <<vb, batch_loss_history>>
  /\ UNCHANGED <<notTrain, optim, arg, nBatches, nValBatches, self_model, model_best_loss,
                 loss_epoch, old_loss, epoch_patience_count,
                 num_training_steps, sched_steps, val_epoch_loss_history,
                 epoch_end_model, saved>>

\* lines 97-112: one validation batch, under torch.no_grad()
ValBatch ==
  /\ pc = "val" /\ vb < nValBatches
  /\ \E l \in Losses : batch_loss_history' = batch_loss_history + l
  /\ vb' = vb + 1
  /\ UNCHANGED <<notTrain, optim, pc, arg, nBatches, nValBatches, epoch, b, heap, self_model,
                 model_best_loss, loss_epoch, old_loss, epoch_patience_count,
                 num_training_steps, sched_steps, optim_steps,
                 val_epoch_loss_history, epoch_loss_history, epoch_end_model,
                 saved>>

\* lines 113-131: best-model bookkeeping and early stopping
ValEnd ==
  /\ pc = "val" /\ vb = nValBatches
  /\ LET improved == Improves(batch_loss_history, old_loss)
         count == PatienceCount(epoch_patience_count, improved)
         cp == DeepCopy(heap, self_model)
     IN /\ epoch_patience_count' = count
        /\ IF improved
             THEN /\ loss_epoch' = epoch + 1
                  /\ heap' = cp.h2
                  /\ model_best_loss' = cp.ref
                  /\ old_loss' = batch_loss_history
             ELSE UNCHANGED <<loss_epoch, heap, model_best_loss, old_loss>>
        /\ IF EarlyStop(arg, count)
             THEN pc' = "finish" /\ UNCHANGED epoch
             ELSE /\ pc' = NextEpochPc(arg, epoch)
                  /\ epoch' = IF epoch + 1 < arg.epochs THEN epoch + 1 ELSE epoch
  /\ val_epoch_loss_history' = Append(val_epoch_loss_history, batch_loss_history)
  /\ epoch_end_model' = Append(epoch_end_model, heap[self_model].w)
  /\ UNCHANGED <<notTrain, optim, arg, nBatches, nValBatches, b, vb, self_model,
                 num_training_steps, sched_steps, optim_steps,
                 batch_loss_history, epoch_loss_history, saved>>

\* line 139 with loss_epoch never assigned: NameError
FinishRaise ==
  /\ pc = "finish"
  /\ arg.X_val /\ arg.save_model /\ loss_epoch = Unbound
  /\ pc' = "NameError"
  /\ UNCHANGED <<notTrain, optim, arg, nBatches, nValBatches, epoch, b, vb, heap, self_model,
                 model_best_loss, loss_epoch, old_loss, epoch_patience_count,
                 num_training_steps, sched_steps, optim_steps,
                 batch_loss_history, val_epoch_loss_history,
                 epoch_loss_history, epoch_end_model, saved>>

\* the object torch.save pickles and the epoch number in the file name
SavedFile(ref, n) == [name |-> "model", epoch |-> n, w |-> IF ref = None THEN -1 ELSE heap[ref].w]

\* lines 136-160
Finish ==
  /\ pc = "finish"
  /\ ~(arg.X_val /\ arg.save_model /\ loss_epoch = Unbound)
  /\ saved' = IF ~arg.save_model THEN NoFile
              ELSE IF arg.X_val THEN SavedFile(model_best_loss, loss_epoch)
              ELSE SavedFile(self_model, arg.epochs)
  /\ self_model' = IF arg.return_best_model /\ arg.X_val
                     THEN model_best_loss ELSE self_model
  /\ pc' = "done"
  /\ UNCHANGED <<notTrain, optim, arg, nBatches, nValBatches, epoch, b, vb, heap,
                 model_best_loss, loss_epoch, old_loss, epoch_patience_count,
                 num_training_steps, sched_steps, optim_steps,
                 batch_loss_history, val_epoch_loss_history,
                 epoch_loss_history, epoch_end_model>>

\* the objects still referenced once the call's locals are gone: the one
\* whose parameters the optimizer holds, then self.model when it is another
\* one. Step counts restart: w counts the steps of the current call.
LiveObjects(h, opt, model) ==
  LET refs == IF model = None THEN <<opt>>
              ELSE IF opt = model THEN <<model>> ELSE <<opt, model>>
  IN [i \in DOMAIN refs |-> [h[refs[i]] EXCEPT !.w = 0]]

\* line 160: train returns and its frame is dropped; of the histories and the
\* optimizer log only the entries of the current call are kept, so they
\* restart too
Return ==
  /\ pc = "done"
  /\ pc' = "idle"
  /\ arg' = NoCall
  /\ nBatches' = 0 /\ nValBatches' = 0
  /\ heap' = LiveObjects(heap, optim, self_model)
  /\ optim' = 1
  /\ self_model' = IF self_model = None THEN None
                   ELSE IF optim = self_model THEN 1 ELSE 2
  /\ epoch' = 0 /\ b' = 0 /\ vb' = 0
  /\ model_best_loss' = None
  /\ loss_epoch' = Unbound
  /\ old_loss' = Inf
  /\ epoch_patience_count' = 0
  /\ num_training_steps' = 0
  /\ sched_steps' = 0
  /\ optim_steps' = <<>>
  /\ batch_loss_history' = 0
  /\ val_epoch_loss_history' = <<>>
  /\ epoch_loss_history' = <<>>
  /\ epoch_end_model' = <<>>
  /\ saved' = NoFile
  /\ UNCHANGED notTrain

TrainNext ==
  \/ TrainCall
  \/ TrainCallRaise
  \/ BatchRaise
  \/ BatchStep
  \/ BatchAccumulate
  \/ EpochEnd
  \/ ValBatch
  \/ ValEnd
  \/ FinishRaise
  \/ Finish
  \/ Return

\* ------------------------------------------------------ baseline_coder.py
PyNone == [t |-> "None"]
PyStr(str) == [t |-> "str", v |-> str]

\* the strings one option can carry on the command line
ArgStrings == {"", "data.csv"}

\* one entry per option of the mutually exclusive group: absent, or a string
Options == {"train_and_test_data", "train_data", "test_data", "test_text"}
CommandLines == [Options -> {PyNone} \cup {PyStr(str) : str \in ArgStrings}]

\* argparse records an option as seen when its value is not its default
Seen(cl) == {o \in Options : cl[o] # PyNone}

\* Python truth value of None or a str (the tests of lines 31, 42, 51, 58)
Truthy(val) == val.t = "str" /\ val.v # ""

\* lines 31-62: the if / elif chain of main
Dispatch(a) ==
  IF Truthy(a["train_and_test_data"]) THEN <<"train_test_baseline">>
  ELSE IF Truthy(a["train_data"]) THEN <<"train_baseline">>
  ELSE IF Truthy(a["test_data"]) THEN <<"test_baseline_filepath">>
  ELSE IF Truthy(a["test_text"]) THEN <<"test_baseline_text">>
  ELSE <<>>

MainInit ==
  /\ m_pc = "argv"
  /\ argv \in CommandLines
  /\ args = [o \in Options |-> PyNone]
  /\ invoked = <<>>

\* lines 80-113: parse_args accepts the command line
ParseArgs ==
  /\ m_pc = "argv"
  /\ Cardinality(Seen(argv)) = 1
  /\ args' = argv
  /\ m_pc' = "parsed"
  /\ UNCHANGED <<notMain, argv, invoked>>

\* lines 81, 113: the required mutually exclusive group rejects the line
ParseArgsExit ==
  /\ m_pc = "argv"
  /\ Cardinality(Seen(argv)) # 1
  /\ m_pc' = "usage_error"
  /\ UNCHANGED <<notMain, argv, args, invoked>>

\* lines 115-127 calling lines 16-62
Main ==
  /\ m_pc = "parsed"
  /\ invoked' = Dispatch(args)
  /\ m_pc' = "returned"
  /\ UNCHANGED <<notMain, argv, args>>

\* ---------------------------------------------------- KFoldCrossVal.train
DefaultAccum == 8

Range(seq) == {seq[i] : i \in DOMAIN seq}

RECURSIVE SortedSeq(_)
SortedSeq(S) ==
  IF S = {} THEN <<>>
  ELSE LET m == CHOOSE a \in S : \A c \in S : a <= c
       IN <<m>> \o SortedSeq(S \ {m})

Permutations_(n) ==
  {p \in [1 .. n -> 1 .. n] : \A i, j \in 1 .. n : p[i] = p[j] => i = j}

\* [seq[i] for i in idx]
Take(seq, idx) == [i \in DOMAIN idx |-> seq[idx[i]]]

\* KFold: the first n % k folds hold n // k + 1 samples, the others n // k
FoldSize(n, k, f) == (n \div k) + (IF f < n % k THEN 1 ELSE 0)

RECURSIVE FoldStart(_, _, _)
FoldStart(n, k, f) ==
  IF f = 0 THEN 0 ELSE FoldStart(n, k, f - 1) + FoldSize(n, k, f - 1)

\* KFold.split over shuffled indices `ind` (a sequence of 0 .. n-1): fold f
\* tests on ind[start : start + size]; both index arrays come out of a mask,
\* hence in ascending order
KFoldSplit(ind, k) ==
  LET n == Len(ind)
      test(f) == {ind[i] : i \in FoldStart(n, k, f) + 1 ..
                                 FoldStart(n, k, f) + FoldSize(n, k, f)}
  IN [f \in 1 .. k |->
        [train_indices |-> SortedSeq((0 .. n - 1) \ test(f - 1)),
         test_indices |-> SortedSeq(test(f - 1))]]

\* ShuffleSplit(test_size=0.1): n_test = ceil(0.1 * n), n_train = n - n_test
NTest(n) == (n + 9) \div 10
NTrain(n) == n - NTest(n)

Placeholder == [of |-> -1]       \* the np.empty first row
Row(sample) == [of |-> sample]   \* the output or label row of one sample

RECURSIVE EvalLoop(_, _, _)
\* lines 205-210: concatenate the outputs batch by batch, in order
EvalLoop(xs, bs, dummy) ==
  IF xs = <<>> THEN dummy
  ELSE LET n == IF Len(xs) < bs THEN Len(xs) ELSE bs
       IN EvalLoop(SubSeq(xs, n + 1, Len(xs)), bs,
                   dummy \o [i \in 1 .. n |-> Row(xs[i])])

\* evaluate returning the placeholder row with the outputs
EvaluateKeepFirst(xs, bs) == EvalLoop(xs, bs, <<Placeholder>>)

\* lines 195-211
Evaluate(xs, bs) == Tail(EvalLoop(xs, bs, <<Placeholder>>))

KFoldArgs ==
  [n : 2 .. MaxSamples,               \* len(X)
   nfolds : 2 .. MaxFolds,
   batch_size : 1 .. MaxBatchSize,
   gradient_accumulation : {1, DefaultAccum}]

KFoldInit ==
  /\ k_pc = "split"
  /\ kf \in KFoldArgs
  /\ splits = <<>>
  /\ fold = 0
  /\ x = <<>> /\ x_val = <<>> /\ x_test = <<>>
  /\ test_log = <<>>
  /\ dummy_predictions = <<Placeholder>>
  /\ dummy_labels = <<Placeholder>>
  /\ report = [predictions |-> <<>>, true_labels |-> <<>>]

\* lines 236-240: more folds than samples
KSplitRaise ==
  /\ k_pc = "split"
  /\ kf.nfolds > kf.n
  /\ k_pc' = "ValueError"
  /\ UNCHANGED <<notKFold, kf, splits, fold, x, x_val, x_test, test_log,
                 dummy_predictions, dummy_labels, report>>

\* lines 236-240: shuffle the indices and cut them into folds
KSplit ==
  /\ k_pc = "split"
  /\ kf.nfolds <= kf.n
  /\ \E p \in Permutations_(kf.n) :
       splits' = KFoldSplit([i \in 1 .. kf.n |-> p[i] - 1], kf.nfolds)
  /\ k_pc' = "fold"
  /\ UNCHANGED <<notKFold, kf, fold, x, x_val, x_test, test_log,
                 dummy_predictions, dummy_labels, report>>

\* lines 245-246: the training part is too small to leave a training sample
FoldSplitRaise ==
  /\ k_pc = "fold"
  /\ NTrain(Len(splits[fold + 1].train_indices)) = 0
  /\ k_pc' = "ValueError"
  /\ UNCHANGED <<notKFold, kf, splits, fold, x, x_val, x_test, test_log,
                 dummy_predictions, dummy_labels, report>>

\* lines 241-248: the fold's samples, then validation split off the training part
FoldSplit ==
  /\ k_pc = "fold"
  /\ LET tr == splits[fold + 1].train_indices
         n == Len(tr)
     IN /\ NTrain(n) # 0
        /\ \E p \in Permutations_(n) :
             /\ x_val' = Take(tr, SubSeq(p, 1, NTest(n)))
             /\ x' = Take(tr, SubSeq(p, NTest(n) + 1, NTest(n) + NTrain(n)))
  /\ x_test' = splits[fold + 1].test_indices
  /\ k_pc' = "train"
  /\ UNCHANGED <<notKFold, kf, splits, fold, test_log, dummy_predictions,
                 dummy_labels, report>>

\* lines 249-259 with gradient_accumulation = 1: Trainer.train raises
FoldTrainRaise ==
  /\ k_pc = "train"
  /\ kf.gradient_accumulation - 1 = 0
  /\ k_pc' = "ZeroDivisionError"
  /\ UNCHANGED <<notKFold, kf, splits, fold, x, x_val, x_test, test_log,
                 dummy_predictions, dummy_labels, report>>

\* lines 249-259: Trainer.train returns
FoldTrain ==
  /\ k_pc = "train"
  /\ kf.gradient_accumulation - 1 # 0
  /\ k_pc' = "evaluate"
  /\ UNCHANGED <<notKFold, kf, splits, fold, x, x_val, x_test, test_log,
                 dummy_predictions, dummy_labels, report>>

\* lines 260-270, and the next iteration of line 240
FoldEvaluate ==
  /\ k_pc = "evaluate"
  /\ dummy_predictions' = dummy_predictions \o Evaluate(x_test, kf.batch_size)
  /\ dummy_labels' = dummy_labels \o [i \in DOMAIN x_test |-> Row(x_test[i])]
  /\ test_log' = Append(test_log, Range(x_test))
  /\ fold' = fold + 1
  /\ k_pc' = IF fold + 1 < kf.nfolds THEN "fold" ELSE "report"
  /\ UNCHANGED <<notKFold, kf, splits, x, x_val, x_test, report>>

\* lines 272-277
Report ==
  /\ k_pc = "report"
  /\ report' = [predictions |-> Tail(dummy_predictions),
                true_labels |-> Tail(dummy_labels)]
  /\ k_pc' = "done"
  /\ UNCHANGED <<notKFold, kf, splits, fold, x, x_val, x_test, test_log,
                 dummy_predictions, dummy_labels>>

\* ------------------------------------------------------- specifications
TrainOff ==
  /\ pc = "off"
  /\ arg = NoCall
  /\ nBatches = 0 /\ nValBatches = 0
  /\ epoch = 0 /\ b = 0 /\ vb = 0
  /\ heap = <<>> /\ self_model = None /\ optim = None /\ model_best_loss = None
  /\ loss_epoch = Unbound /\ old_loss = Inf /\ epoch_patience_count = 0
  /\ num_training_steps = 0 /\ sched_steps = 0 /\ optim_steps = <<>>
  /\ batch_loss_history = 0 /\ val_epoch_loss_history = <<>>
  /\ epoch_loss_history = <<>> /\ epoch_end_model = <<>> /\ saved = NoFile

MainOff ==
  /\ m_pc = "off" /\ argv = <<>> /\ args = <<>> /\ invoked = <<>>

KFoldOff ==
  /\ k_pc = "off" /\ kf = <<>> /\ splits = <<>> /\ fold = 0
  /\ x = <<>> /\ x_val = <<>> /\ x_test = <<>> /\ test_log = <<>>
  /\ dummy_predictions = <<>> /\ dummy_labels = <<>> /\ report = <<>>

MainNext ==
  \/ ParseArgs
  \/ ParseArgsExit
  \/ Main

KFoldNext ==
  \/ KSplitRaise
  \/ KSplit
  \/ FoldSplitRaise
  \/ FoldSplit
  \/ FoldTrainRaise
  \/ FoldTrain
  \/ FoldEvaluate
  \/ Report

InitTrain == TrainInit /\ MainOff /\ KFoldOff
InitMain == MainInit /\ TrainOff /\ KFoldOff
InitKFold == KFoldInit /\ TrainOff /\ MainOff

SpecTrain == InitTrain /\ [][TrainNext]_vars
SpecMain == InitMain /\ [][MainNext]_vars
SpecKFold == InitKFold /\ [][KFoldNext]_vars
\* ------------------------------------------------- properties of train
Raised == pc \in {"ZeroDivisionError", "NameError", "AttributeError"}
Returned == pc = "done"

MinOf(S) == CHOOSE m \in S : \A y \in S : m <= y

\* lowest validation loss among epochs 1 .. i-1 (np.inf when there is none)
MinBefore(hist, i) == IF i = 1 THEN Inf ELSE MinOf({hist[j] : j \in 1 .. i - 1})

\* number of epochs whose loss is not strictly below every earlier one
NonImproving(hist) ==
  Cardinality({i \in DOMAIN hist : ~(hist[i] < MinBefore(hist, i))})

\* 1-based number of the earliest epoch with the minimum loss
EarliestMin(hist) ==
  CHOOSE i \in DOMAIN hist :
    /\ \A j \in DOMAIN hist : hist[i] <= hist[j]
    /\ \A j \in 1 .. i - 1 : hist[j] # hist[i]

\* C1: with a validation set, early_stopping and patience p >= 1, the patience
\* counter is the cumulative number of non-improving epochs of the call, it
\* never exceeds p, and once it reaches p no further epoch is trained or
\* validated: the loop has ended right after the epoch that reached p.
C1_EarlyStopping ==
  (arg.X_val /\ arg.early_stopping /\ arg.patience >= 1) =>
    /\ epoch_patience_count = NonImproving(val_epoch_loss_history)
    /\ epoch_patience_count <= arg.patience
    /\ (pc \in {"train", "val"} =>
          NonImproving(val_epoch_loss_history) < arg.patience)
    /\ (NonImproving(val_epoch_loss_history) = arg.patience =>
          /\ pc \in {"finish", "done"}
          /\ Len(epoch_loss_history) = Len(val_epoch_loss_history)
          /\ ~(val_epoch_loss_history[Len(val_epoch_loss_history)]
                 < MinBefore(val_epoch_loss_history, Len(val_epoch_loss_history))))

\* patience 1 of 3 epochs: the first epoch improved and left the counter at
\* 0, the second did not, and the call returned without a third epoch
C1_Witness ==
  /\ Returned /\ arg.X_val /\ arg.early_stopping /\ arg.patience = 1
  /\ epoch_patience_count = arg.patience
  /\ Len(val_epoch_loss_history) = 2
  /\ Len(epoch_loss_history) = 2
  /\ arg.epochs = 3

\* C2: after a train call that returns, with a validation set,
\* return_best_model and epochs >= 1, self.model is a separate object holding
\* the weights the model had at the end of the earliest epoch with the minimum
\* validation loss, untouched by later training, and with save_model the file
\* written holds those weights under that epoch's 1-based number.
C2_BestModel ==
  (Returned /\ arg.X_val /\ arg.return_best_model /\ arg.epochs >= 1) =>
    LET e == EarliestMin(val_epoch_loss_history)
    IN /\ val_epoch_loss_history # <<>>
       /\ self_model = model_best_loss
       /\ heap[self_model].w = epoch_end_model[e]
       /\ loss_epoch = e
       /\ (arg.save_model =>
             saved = [name |-> "model", epoch |-> e, w |-> epoch_end_model[e]])

\* three epochs ran, the minimum was first reached in epoch 2 and tied in
\* epoch 3, and the live model was trained past the snapshot
C2_Witness ==
  /\ Returned /\ arg.X_val /\ arg.return_best_model /\ arg.save_model
  /\ Len(val_epoch_loss_history) = 3
  /\ EarliestMin(val_epoch_loss_history) = 2
  /\ val_epoch_loss_history[3] = val_epoch_loss_history[2]
  /\ heap[optim].w > heap[self_model].w

\* batches of the call, by (epoch, index in the epoch)
BatchIds == (0 .. MaxEpochs) \X (0 .. MaxBatches)

\* the batch has been through backward()
Processed(bid) ==
  \/ bid[1] < Len(epoch_loss_history) /\ bid[2] < nBatches
  \/ bid[1] = Len(epoch_loss_history) /\ pc \in {"train", "ZeroDivisionError"}
       /\ (bid[2] < b \/ (pc = "ZeroDivisionError" /\ bid[2] = b))

LoopStepAfter(bid) ==
  \E i \in DOMAIN optim_steps :
    optim_steps[i].kind = "loop" /\ optim_steps[i].epoch = bid[1]
      /\ optim_steps[i].b = bid[2]

\* C3: for gradient_accumulation g >= 2 an in-loop optimizer step follows
\* batch b exactly when b + 1 is a multiple of g, so each in-loop step
\* applies the gradients of exactly g batches.
C3_StepEveryG ==
  arg.gradient_accumulation >= 2 =>
    /\ \A bid \in BatchIds :
         Processed(bid) =>
           (LoopStepAfter(bid) <=> (bid[2] + 1) % arg.gradient_accumulation = 0)
    /\ \A i \in DOMAIN optim_steps :
         optim_steps[i].kind = "loop" =>
           Cardinality(optim_steps[i].grads) = arg.gradient_accumulation

\* C6: a call without a validation set, or with early_stopping = False, runs
\* exactly `epochs` epochs; no call runs more than `epochs` epochs.
C6_RunsAllEpochs ==
  /\ Len(epoch_loss_history) <= arg.epochs
  /\ ((Returned \/ Raised) /\ (~arg.X_val \/ ~arg.early_stopping)) =>
        Len(epoch_loss_history) = arg.epochs

\* C7: the scheduler is built for (batches per epoch // g) * epochs steps and,
\* for g >= 2, scheduler.step() is never called more often than that.
C7_SchedulerSteps ==
  arg.gradient_accumulation >= 2 =>
    /\ num_training_steps = (nBatches \div arg.gradient_accumulation) * arg.epochs
    /\ sched_steps <= num_training_steps

\* C8: with gradient_accumulation = 1 (the default) and at least one epoch to
\* run, train raises no error and steps the optimizer after every batch.
C8_DefaultAccumulation ==
  (arg.gradient_accumulation = 1 /\ arg.epochs >= 1) =>
    /\ ~Raised
    /\ \A bid \in BatchIds : Processed(bid) => LoopStepAfter(bid)

\* the batches that have been through backward()
ProcessedSet ==
  ((0 .. Len(epoch_loss_history) - 1) \X (0 .. nBatches - 1))
    \cup (IF pc = "train" THEN {Len(epoch_loss_history)} \X (0 .. b - 1) ELSE {})

\* the batches whose gradient some optimizer step has applied
AppliedSet == UNION {optim_steps[i].grads : i \in DOMAIN optim_steps}

\* the batches whose gradient is accumulated in self.model
Accumulated == IF self_model = None THEN {} ELSE heap[self_model].grad

\* no batch is in the gradient of two optimizer steps
AppliedOnce ==
  \A i \in DOMAIN optim_steps :
    \A j \in i + 1 .. Len(optim_steps) :
      optim_steps[i].grads \cap optim_steps[j].grads = {}

\* applied and accumulated batches are exactly the processed ones, no batch
\* is applied twice or both applied and accumulated, and nothing is
\* accumulated at the start of an epoch, during validation or after the loop
\* (so that by then every processed batch has been applied exactly once)
C9_State ==
  /\ AppliedSet \cup Accumulated = ProcessedSet
  /\ AppliedSet \cap Accumulated = {}
  /\ AppliedOnce
  /\ (pc = "train" /\ b = 0) => Accumulated = {}
  /\ pc \in {"val", "finish", "done"} => Accumulated = {}

C9_ValStep ==
  pc = "val" =>
    /\ optim_steps' = optim_steps
    /\ sched_steps' = sched_steps
    /\ heap'[optim] = heap[optim]
    /\ heap'[self_model] = heap[self_model]

\* C9: in every call with gradient_accumulation >= 2 the batches applied by
\* optimizer steps plus the batches still accumulated are exactly the batches
\* processed, each counted once (so none is lost, applied twice, or both
\* applied and still accumulated); nothing is accumulated at the start of an
\* epoch or during validation, by when every batch has been applied exactly
\* once; and a validation pass takes no optimizer or scheduler step.
C9_NoGradientLost ==
  /\ [](arg.gradient_accumulation >= 2 => C9_State)
  /\ [][arg.gradient_accumulation >= 2 => C9_ValStep]_vars

\* ------------------------------------------ properties of main and k-fold
FunctionFor(o) ==
  CASE o = "train_and_test_data" -> "train_test_baseline"
    [] o = "train_data" -> "train_baseline"
    [] o = "test_data" -> "test_baseline_filepath"
    [] o = "test_text" -> "test_baseline_text"

\* C4: when exactly one option of the mutually exclusive group was supplied
\* on the command line and the other three arguments are None, main invokes
\* exactly the pipeline function of that option; no call of main invokes more
\* than one of the four.
C4_Dispatch ==
  m_pc = "returned" =>
    /\ Len(invoked) <= 1
    /\ \A o \in Options :
         (Seen(argv) = {o} /\ \A o2 \in Options \ {o} : args[o2] = PyNone)
           => invoked = <<FunctionFor(o)>>

Samples == 0 .. kf.n - 1

NoRepeat(seq) == Cardinality(Range(seq)) = Len(seq)

\* C5: in every fold the final training, validation and test samples are
\* pairwise disjoint and together are all of X; over the folds every sample
\* is tested in exactly one; and the combined predictions and labels of the
\* final report have len(X) rows each, none of them the placeholder, row k of
\* both belonging to the same sample.
C5_KFold ==
  /\ k_pc \in {"train", "evaluate"} =>
       /\ Range(x) \cap Range(x_val) = {}
       /\ Range(x) \cap Range(x_test) = {}
       /\ Range(x_val) \cap Range(x_test) = {}
       /\ Range(x) \cup Range(x_val) \cup Range(x_test) = Samples
       /\ NoRepeat(x) /\ NoRepeat(x_val) /\ NoRepeat(x_test)
  /\ k_pc \in {"report", "done"} =>
       /\ Len(test_log) = kf.nfolds
       /\ \A smp \in Samples :
            Cardinality({f \in DOMAIN test_log : smp \in test_log[f]}) = 1
  /\ k_pc = "done" =>
       /\ Len(report.predictions) = kf.n
       /\ Len(report.true_labels) = kf.n
       /\ \A k \in 1 .. kf.n :
            /\ report.predictions[k] = report.true_labels[k]
            /\ report.predictions[k] # Placeholder
       /\ Range(report.predictions) = {Row(smp) : smp \in Samples}

\* four samples in three folds of unequal size, evaluated one sample per
\* batch, the shuffle having put a later sample in an earlier fold
C5_Witness ==
  /\ k_pc = "done" /\ kf.n = 4 /\ kf.nfolds = 3 /\ kf.batch_size = 1
  /\ Len(test_log) = 3
  /\ Cardinality(test_log[1]) = 2
  /\ report.predictions[3].of < report.predictions[1].of
====
